---- MODULE Spec2Model ----
(***************************************************************************)
(* Model of vodoo.py: the set.view.arch operation (update_view), the       *)
(* per-view synchronisation xml2arch, the watchdog handler                 *)
(* MyHandler.on_modified, and the commit decision of __main__.             *)
(*                                                                         *)
(* Paths are sequences of components; markup is a sequence of tokens in    *)
(* which the double quote, the single quote and the backslash are tokens   *)
(* of their own.  Tallies are triples <<warnings, errors, applied>> in the *)
(* order xml2arch returns them (nw, ne, nc).                               *)
(***************************************************************************)
EXTENDS Integers, Sequences, FiniteSets, TLC

\* ---------------------------------------------------------------- bounds
MaxRows == 2          \* rows returned by the ir_model_data query
MaxChildren == 3      \* direct children of a located fragment
MaxNodes == 1         \* record/template nodes in a source document
MaxEvents == 2        \* filesystem events emitted in a watch session
MaxTime == 2          \* clock ticks the model lets pass
TicksPerSecond == 2   \* clock resolution
MaxPayload == 3       \* characters of a payload escaped on its own
MaxTokens == 3        \* comma-separated tokens of an --order-by clause

\* ------------------------------------------------------ program constants
QuiescenceSeconds == 1
Interval == QuiescenceSeconds * TicksPerSecond

None == "None"        \* Python None / an absent argv key
False == <<"False">>  \* Python False as the value of fn (no file resolved)
NoFile == <<>>        \* argv without 'filename'

Zero == <<0, 0, 0>>
Add(a, b) == <<a[1] + b[1], a[2] + b[2], a[3] + b[3]>>

\* ------------------------------------------------------------ input sets
Types == {"form", "tree", "qweb", "kanban"}
Names == <<"v1", "v2", "v3", "v4">>
ArchFs == <<<<"mymod", "a.xml">>, <<"mymod", "b.xml">>>>
Dirs == {"addons1", "addons2"}
Filenames == {<<"mymod", ".", "x.xml">>}
SourceIds == {"s1"}
\* Child elements of a fragment: a tag and its text.
Elements == <<[tag |-> "form", text |-> ""], [tag |-> "p", text |-> "'"],
              [tag |-> "t", text |-> "\\"], [tag |-> "div", text |-> ""]>>

DQ == "\""
SQ == "'"

\* ------------------------------------------------------------ os.path
\* os.path.join(pt, rel) for a relative rel.
PathJoin(pt, rel) == <<pt>> \o rel

RECURSIVE DropDots(_)
DropDots(p) ==
    IF p = <<>> THEN <<>>
    ELSE IF Head(p) = "." THEN DropDots(Tail(p))
    ELSE <<Head(p)>> \o DropDots(Tail(p))

\* os.path.normpath: collapses "." components; raises on a non-path.
Normpath(p) == DropDots(p)

\* os.path.dirname
Dirname(p) == IF Len(p) <= 1 THEN <<>> ELSE SubSeq(p, 1, Len(p) - 1)

\* ------------------------------------------------------------ file choice
\* The for loop over addons_path: the first pt whose join exists, else False.
\* ex is the set of search paths under which the stored path exists.
\* The loop without its break: the last search path that has the file wins.
RECURSIVE WalkAddonsLast(_, _, _)
WalkAddonsLast(addons_path, arch_fs, ex) ==
    IF addons_path = <<>> THEN False
    ELSE IF WalkAddonsLast(Tail(addons_path), arch_fs, ex) # False
    THEN WalkAddonsLast(Tail(addons_path), arch_fs, ex)
    ELSE IF Head(addons_path) \in ex THEN PathJoin(Head(addons_path), arch_fs)
    ELSE False

RECURSIVE WalkAddons(_, _, _)
WalkAddons(addons_path, arch_fs, ex) ==
    IF addons_path = <<>> THEN False
    ELSE IF Head(addons_path) \in ex THEN PathJoin(Head(addons_path), arch_fs)
    ELSE WalkAddons(Tail(addons_path), arch_fs, ex)

ResolveFn(addons_path, _filename, arch_fs, ex) ==
    IF addons_path # <<>> THEN WalkAddons(addons_path, arch_fs, ex)
    ELSE IF _filename # NoFile THEN _filename
    ELSE arch_fs

\* ------------------------------------------------------------ xml2arch
\* The requested ids that contain '%': ALL and a pattern such as v*.
Wildcards == {"%", "v%"}

\* The precedence with the requested id ahead of the source id.
RidRequestedFirst(_id, ir_model_data_name, _source_id) ==
    IF _id \notin Wildcards THEN _id
    ELSE IF _source_id # None THEN _source_id
    ELSE ir_model_data_name

\* rid = _source_id or ('%' not in _id and _id or ir_model_data_name)
Rid(_id, ir_model_data_name, _source_id) ==
    IF _source_id # None THEN _source_id
    ELSE IF _id \notin Wildcards THEN _id
    ELSE ir_model_data_name

\* root.findall(".//<tag>[@id=rid]"): the matching nodes in document order.
FindAll(doc, tag, rid) ==
    SelectSeq(doc, LAMBDA n : n.tag = tag /\ n.id = rid)

\* The dispatch with one more accepted type: kanban is looked up as a template.
SupportedKanban(ir_ui_view_type) ==
    ir_ui_view_type \in {"form", "tree"} \/ ir_ui_view_type \in {"qweb", "kanban"}

\* The view types xml2arch accepts.
Supported(ir_ui_view_type) == ir_ui_view_type \in {"form", "tree"} \/ ir_ui_view_type \in {"qweb"}

\* The located list `arch` for a supported view type.
Locate(doc, ir_ui_view_type, rid) ==
    IF ir_ui_view_type \in {"form", "tree"} THEN FindAll(doc, "record", rid)
    ELSE IF FindAll(doc, "template", rid) # <<>>
         THEN FindAll(doc, "template", rid)
         ELSE FindAll(doc, "template", rid)

\* ET.tostring(a) of one child element.
EtToString(a) ==
    IF a.text = "" THEN <<"<" \o a.tag \o " />">>
    ELSE <<"<" \o a.tag \o ">", a.text, "</" \o a.tag \o ">">>

RECURSIVE ConcatChildren(_)
ConcatChildren(children) ==
    IF children = <<>> THEN <<>>
    ELSE EtToString(Head(children)) \o ConcatChildren(Tail(children))

XmlDecl == <<"<?xml version=", DQ, "1.0", DQ, "?>", "\n">>

\* The envelope test off by one: len(arch[0]) > 0.
WrapDataAny(children, new_arch) ==
    IF Len(children) > 0 THEN <<"<data>">> \o new_arch \o <<"</data>">>
    ELSE new_arch

WrapData(children, new_arch) ==
    IF Len(children) > 1 THEN <<"<data>">> \o new_arch \o <<"</data>">>
    ELSE new_arch

\* new_arch after line 366: declaration, optional <data> envelope, children.
BuildArch(children) == XmlDecl \o WrapData(children, ConcatChildren(children))

\* .replace('"', r'\"').replace('\'', r'\'')
RECURSIVE Escape(_)
Escape(s) ==
    IF s = <<>> THEN <<>>
    ELSE IF Head(s) = DQ THEN <<"\\", DQ>> \o Escape(Tail(s))
    ELSE IF Head(s) = SQ THEN <<"\\", SQ>> \o Escape(Tail(s))
    ELSE <<Head(s)>> \o Escape(Tail(s))

\* One result of xml2arch: the returned triple (raised = FALSE) or an
\* exception leaving the function (raised = TRUE), the statements executed
\* on the cursor, the payload built and the step at which it ended.
Outcome(step, res, raised, payload, stmts) ==
    [step |-> step, res |-> res, raised |-> raised, payload |-> payload, stmts |-> stmts]

\* env: what the file system, the serializer and the store answer this call.
\*   file  : "missing" | "malformed" | "ok"     (ET.parse)
\*   doc   : the parsed document
\*   serOk : ET.tostring/decode succeed
\*   dbOk  : cr.execute succeeds
Xml2ArchWrite(new_arch, ir_ui_view_id, env) ==
    IF env.dbOk
    THEN Outcome("applied", <<0, 0, 1>>, FALSE, new_arch,
                 <<[id |-> ir_ui_view_id, literal |-> Escape(new_arch)]>>)
    ELSE Outcome("dberror", <<0, 1, 0>>, FALSE, new_arch, <<>>)

\* The except branch of the serialisation try: terr("%sERROR: ... %s\n" % E)
\* has two conversions and one argument, so the handler itself raises
\* TypeError before ne += 1.
SerializeFailed == Outcome("serialize", Zero, TRUE, <<>>, <<>>)

\* No match counted as an error without leaving: the UPDATE still runs.
Xml2ArchLocatedFallsThrough(arch, ir_ui_view_id, env) ==
    IF Len(arch) = 0
    THEN Outcome("nomatch", <<0, 1, 0>>, FALSE, <<>>,
                 <<[id |-> ir_ui_view_id, literal |-> <<>>]>>)
    ELSE IF ~env.serOk THEN SerializeFailed
    ELSE Xml2ArchWrite(BuildArch(arch[1].children), ir_ui_view_id, env)

Xml2ArchLocated(arch, ir_ui_view_id, env) ==
    IF Len(arch) = 0 THEN Outcome("nomatch", <<0, 1, 0>>, FALSE, <<>>, <<>>)
    ELSE IF ~env.serOk THEN SerializeFailed
    ELSE Xml2ArchWrite(BuildArch(arch[1].children), ir_ui_view_id, env)

Xml2Arch(_id, ir_model_data_name, ir_ui_view_id, ir_ui_view_type, _source_id, fn, env) ==
    IF fn = False \/ env.file = "missing"
    THEN Outcome("notfound", <<0, 1, 0>>, FALSE, <<>>, <<>>)
    ELSE IF env.file = "malformed"
    THEN Outcome("parse", <<0, 1, 0>>, FALSE, <<>>, <<>>)
    ELSE IF ~Supported(ir_ui_view_type)
    THEN Outcome("kind", <<1, 0, 0>>, FALSE, <<>>, <<>>)
    ELSE Xml2ArchLocated(Locate(env.doc, ir_ui_view_type,
                                Rid(_id, ir_model_data_name, _source_id)),
                         ir_ui_view_id, env)

\* ------------------------------------------------------------ environment
SeqsUpTo(S, n) == UNION {[1..k -> S] : k \in 0..n}

Fragments == SeqsUpTo({Elements[k] : k \in 1..3}, MaxChildren)

\* Source documents: nodes of either tag, under the ids the run can look up,
\* holding 0..MaxChildren children.
DocFragments == {[j \in 1..k |-> Elements[((j - 1) % Len(Elements)) + 1]] : k \in 0..MaxChildren}
DocIds == {Names[k] : k \in 1..MaxRows} \cup SourceIds
Nodes == [tag : {"record", "template"}, id : DocIds, children : DocFragments]
Docs == SeqsUpTo(Nodes, MaxNodes)

Envs ==
    {[file |-> f, doc |-> <<>>, serOk |-> TRUE, dbOk |-> TRUE] : f \in {"missing", "malformed"}}
    \cup [file : {"ok"}, doc : Docs, serOk : BOOLEAN, dbOk : BOOLEAN]

\* ------------------------------------------------------------ state
VARIABLES
    argv,         \* watch, id, source-id, filename, config
    addons_path,  \* the list read from the config file ([] without -c)
    rows,         \* cr.fetchall() of the ir_model_data query
    pc,           \* position of the main thread
    i,            \* index of the row the for loop is at (1-based)
    acc,          \* update_view's locals <<nw, ne, nc>>
    handlers,     \* event_handlers: the MyHandler objects
    now,          \* datetime.now(), in ticks
    inflight,     \* the event being dispatched and the handlers still to call
    observer,     \* "idle" | "running" | "dead" | "stopped"
    nevents,      \* events emitted so far
    staged,       \* view ids written in the open transaction
    committed,    \* view ids whose write a commit has made durable
    commitLog,    \* per commit: the errors xml2arch had returned before it
    last,         \* the most recent xml2arch call and its outcome
    chosen,       \* the most recent file choice of the for loop
    stats,        \* xml2arch calls of the for loop, by the step they ended at
    tally,        \* sum of the triples xml2arch returned in this operation
    seen,         \* per handler: the last 'modified' event of its file it was called with
    reported,     \* the totals update_view logs when the watch ends
    ret,          \* the triple update_view returned
    inp,          \* arguments of a function exercised on its own
    outp          \* <<>> or its results so far

vars == <<inp, outp, argv, addons_path, rows, pc, i, acc, handlers, now, inflight, observer,
          nevents, staged, committed, commitLog, last, chosen, stats, tally, seen,
          reported, ret>>

NoCall == [row |-> 0, fn |-> False, step |-> "none", res |-> Zero, raised |-> FALSE,
           wrote |-> <<>>]
NoChoice == [row |-> 0, ex |-> {}, fn |-> False]
NoStats == [calls |-> 0, nomatch |-> 0, applied |-> 0, other |-> 0]
Idle == [ev |-> [cls |-> "none", path |-> <<>>], todo |-> {}]

Range(s) == {s[k] : k \in 1..Len(s)}

\* Injective sequences over D: the addons_path lists a config can give.
AddonsLists(D) == {a \in SeqsUpTo(D, Cardinality(D)) :
                      \A m, n \in 1..Len(a) : m # n => a[m] # a[n]}

\* Rows the query can return for the pattern _id: without a wildcard at most
\* the one record of that name, with it records of distinct names.  The k-th
\* row's file is one of the first k of ArchFs (rows are told apart by their
\* names, files only by being shared or not).
RowFiles(k) == {ArchFs[j] : j \in 1..(IF k < Len(ArchFs) THEN k ELSE Len(ArchFs))}
RowsFor(_id, types) ==
    UNION {{r \in [1..n -> [type : types, arch_fs : Range(ArchFs)]] :
               \A k \in 1..n : r[k].arch_fs \in RowFiles(k)}
           : n \in 0..(IF _id = "%" THEN MaxRows ELSE 1)}

RowName(_id, k) == IF _id = "%" THEN Names[k] ELSE _id

\* The command lines of a one-shot run and of a --watch run.
BatchArgs ==
    [watch : {FALSE}, id : {"v1", "%"}, source_id : {None} \cup SourceIds,
     filename : {NoFile} \cup Filenames, config : BOOLEAN]
WatchArgs ==
    [watch : {TRUE}, id : {"%"}, source_id : {None}, filename : {NoFile}, config : BOOLEAN]
WatchTypes == {"form", "kanban"}
WatchDirs == {"addons1"}

NoInput == [f |-> "none"]

Begin(args, types, dirs) ==
    /\ inp = NoInput
    /\ outp = <<>>
    /\ argv \in args
    /\ addons_path \in (IF argv.config THEN AddonsLists(dirs) ELSE {<<>>})
    /\ \E r \in RowsFor(argv.id, types) :
          rows = [k \in 1..Len(r) |->
                    [view_id |-> k, type |-> r[k].type, arch_fs |-> r[k].arch_fs,
                     name |-> RowName(argv.id, k)]]
    /\ pc = "start"
    /\ i = 1
    /\ acc = Zero
    /\ handlers = <<>>
    /\ now = 0
    /\ inflight = Idle
    /\ observer = "idle"
    /\ nevents = 0
    /\ staged = <<>>
    /\ committed = <<>>
    /\ commitLog = <<>>
    /\ last = NoCall
    /\ chosen = NoChoice
    /\ stats = NoStats
    /\ tally = Zero
    /\ seen = <<>>
    /\ reported = Zero
    /\ ret = Zero

\* ------------------------------------------------------------ update_view
\* The option checks at the head of update_view that end in exit(1).
ArgsRejected(a) ==
    \/ a.filename # NoFile /\ a.config
    \/ a.source_id # None /\ a.filename = NoFile

\* Lines 385-522: option checks, config, query, handler class, nw = ne = nc = 0.
\* wd: the watchdog package can be imported.
Start ==
    /\ pc = "start"
    /\ \E wd \in BOOLEAN :
          IF ArgsRejected(argv) THEN pc' = "exit" /\ ret' = ret
          ELSE IF argv.watch /\ ~wd THEN pc' = "returned" /\ ret' = <<0, 1, 0>>
          ELSE pc' = "loop" /\ ret' = ret
    /\ UNCHANGED <<inp, outp, argv, addons_path, rows, i, acc, handlers, now, inflight, observer,
                   nevents, staged, committed, commitLog, last, chosen, stats, tally,
                   seen, reported>>

Count(st, out) ==
    [calls |-> st.calls + 1,
     nomatch |-> st.nomatch + (IF out.step = "nomatch" THEN 1 ELSE 0),
     applied |-> st.applied + (IF out.step = "applied" THEN 1 ELSE 0),
     other |-> st.other + (IF out.step \notin {"nomatch", "applied"} THEN 1 ELSE 0)]

Ids(stmts) == [k \in 1..Len(stmts) |-> stmts[k].id]

\* The record kept of one xml2arch call: the binding, the file, the step it
\* ended at, what it returned and the view ids it wrote.
Call(row, fn, out) ==
    [row |-> row, fn |-> fn, step |-> out.step, res |-> out.res, raised |-> out.raised,
     wrote |-> Ids(out.stmts)]

\* One iteration of the for loop without --watch (lines 523-582).
RowBatch ==
    /\ pc = "loop" /\ ~argv.watch /\ i <= Len(rows)
    /\ \E ex \in SUBSET Range(addons_path), env \in Envs :
          LET row == rows[i]
              fn == ResolveFn(addons_path, argv.filename, row.arch_fs, ex)
              out == Xml2Arch(argv.id, row.name, row.view_id, row.type,
                              argv.source_id, fn, env)
          IN /\ chosen' = [row |-> i, ex |-> ex, fn |-> fn]
             /\ last' = Call(i, fn, out)
             /\ staged' = staged \o Ids(out.stmts)
             /\ stats' = Count(stats, out)
             /\ tally' = IF out.raised THEN tally ELSE Add(tally, out.res)
             /\ IF out.raised
                THEN pc' = "raised" /\ acc' = acc /\ i' = i
                ELSE pc' = pc /\ acc' = out.res /\ i' = i + 1
    /\ UNCHANGED <<inp, outp, argv, addons_path, rows, handlers, now, inflight, observer, nevents,
                   committed, commitLog, seen, reported, ret>>

\* MyHandler.__init__
MyHandler(row, filename) ==
    [last_modified |-> now, nwarnings |-> 0, nerrors |-> 0, ncommits |-> 0,
     row |-> row, filename |-> filename]

\* One iteration of the for loop with --watch: os.path.normpath(fn) raises
\* TypeError when fn is False.
RowWatch ==
    /\ pc = "loop" /\ argv.watch /\ i <= Len(rows)
    /\ \E ex \in SUBSET Range(addons_path) :
          LET row == rows[i]
              fn == ResolveFn(addons_path, argv.filename, row.arch_fs, ex)
          IN /\ chosen' = [row |-> i, ex |-> ex, fn |-> fn]
             /\ IF fn = False
                THEN pc' = "raised" /\ handlers' = handlers /\ seen' = seen /\ i' = i
                ELSE /\ pc' = pc
                     /\ handlers' = Append(handlers, MyHandler(i, Normpath(fn)))
                     /\ seen' = Append(seen, [n |-> 0, t |-> 0, processed |-> FALSE])
                     /\ i' = i + 1
    /\ UNCHANGED <<inp, outp, argv, addons_path, rows, acc, now, inflight, observer, nevents,
                   staged, committed, commitLog, last, stats, tally, reported, ret>>

\* The return without the test of line 613: an empty result is no error.
NoRowsIgnored(a) == a

\* if not rows: ne = 1
NoRows(a) == IF Len(rows) = 0 THEN <<a[1], 1, a[3]>> ELSE a

\* Lines 584-617 when no watch session starts: return nw, ne, nc.
Return ==
    /\ pc = "loop" /\ i > Len(rows)
    /\ ~(Len(rows) > 0 /\ argv.watch /\ Len(handlers) > 0)
    /\ ret' = NoRows(acc)
    /\ pc' = "returned"
    /\ UNCHANGED <<inp, outp, argv, addons_path, rows, i, acc, handlers, now, inflight, observer,
                   nevents, staged, committed, commitLog, last, chosen, stats, tally,
                   seen, reported>>

\* Lines 584-596: schedule every handler on its directory, start the observer.
StartObserver ==
    /\ pc = "loop" /\ i > Len(rows)
    /\ Len(rows) > 0 /\ argv.watch /\ Len(handlers) > 0
    /\ observer' = "running"
    /\ pc' = "watching"
    /\ UNCHANGED <<inp, outp, argv, addons_path, rows, i, acc, handlers, now, inflight, nevents,
                   staged, committed, commitLog, last, chosen, stats, tally, seen,
                   reported, ret>>

\* ------------------------------------------------------------ watch session
\* The clock advances while the main thread sleeps in its loop.
Tick ==
    /\ pc = "watching" /\ now < MaxTime
    /\ now' = now + 1
    /\ UNCHANGED <<inp, outp, argv, addons_path, rows, pc, i, acc, handlers, inflight, observer,
                   nevents, staged, committed, commitLog, last, chosen, stats, tally,
                   seen, reported, ret>>

WatchDir(h) == Dirname(handlers[h].filename)

\* Events the watched directories can produce: a change of a watched file,
\* of another file next to it, of the directory itself, or a creation.
Events ==
    UNION {{[cls |-> c, path |-> handlers[h].filename] : c \in {"FileModified", "FileCreated"}}
           \cup {[cls |-> "FileModified", path |-> WatchDir(h) \o <<"other.xml">>],
                 [cls |-> "DirModified", path |-> WatchDir(h)]}
           : h \in 1..Len(handlers)}

EventDir(ev) == IF ev.cls = "DirModified" THEN ev.path ELSE Dirname(ev.path)

\* The observer thread takes an event off its queue; it will call every
\* handler scheduled on the event's directory (observer.schedule, line 589).
Emit ==
    /\ pc = "watching" /\ observer = "running"
    /\ inflight.todo = {} /\ nevents < MaxEvents
    /\ \E ev \in Events :
          inflight' = [ev |-> ev,
                       todo |-> {h \in 1..Len(handlers) : WatchDir(h) = EventDir(ev)}]
    /\ nevents' = nevents + 1
    /\ UNCHANGED <<inp, outp, argv, addons_path, rows, pc, i, acc, handlers, now, observer, staged,
                   committed, commitLog, last, chosen, stats, tally, seen, reported, ret>>

\* datetime.now() - self.last_modified >= timedelta(seconds=1)
Quiet(hd) == now - hd.last_modified >= Interval

\* type(event) == FileModifiedEvent and event_type == 'modified' and
\* self.filename == os.path.normpath(event.src_path)
Matches(hd, ev) == ev.cls = "FileModified" /\ hd.filename = Normpath(ev.path)

\* _ne, _nw, _nc = xml2arch(...): the triple is (nw, ne, nc), so _ne takes the
\* warnings and _nw the errors; then nerrors += _ne, nwarnings += _nw,
\* ncommits += _nc.
Tallied(hd, res) ==
    [hd EXCEPT !.nerrors = @ + res[1], !.nwarnings = @ + res[2], !.ncommits = @ + res[3]]

\* if self.ncommits > 0: cr.connection.commit()   (tested before the += above)
CommitsNow(hd) == hd.ncommits > 0

\* The n-th 'modified' event of the handler's file: when it came, whether
\* xml2arch ran for it.
Remember(old, processed) == [n |-> old.n + 1, t |-> now, processed |-> processed]

\* FileSystemEventHandler.dispatch calls on_modified for 'modified' events.
\* MyHandler.on_modified, lines 493-515, for handler h and the event in flight.
OnModified(h) ==
    LET hd == handlers[h]
        ev == inflight.ev
        row == rows[hd.row]
    IN IF ev.cls \in {"FileModified", "DirModified"} /\ Quiet(hd) /\ Matches(hd, ev)
       THEN \E env \in Envs :
               LET out == Xml2Arch(argv.id, row.name, row.view_id, row.type,
                                   argv.source_id, hd.filename, env)
               IN /\ last' = Call(hd.row, hd.filename, out)
                  /\ tally' = IF out.raised THEN tally ELSE Add(tally, out.res)
                  /\ seen' = [seen EXCEPT ![h] = Remember(@, TRUE)]
                  /\ IF out.raised
                     THEN /\ observer' = "dead"
                          /\ inflight' = Idle
                          /\ UNCHANGED <<handlers, staged, committed, commitLog>>
                     ELSE /\ observer' = observer
                          /\ inflight' = [inflight EXCEPT !.todo = @ \ {h}]
                          /\ handlers' = [handlers EXCEPT ![h] = Tallied(hd, out.res)]
                          /\ IF CommitsNow(hd)
                             THEN /\ committed' = committed \o staged \o Ids(out.stmts)
                                  /\ staged' = <<>>
                                  /\ commitLog' = Append(commitLog, tally[2])
                             ELSE /\ staged' = staged \o Ids(out.stmts)
                                  /\ UNCHANGED <<committed, commitLog>>
       ELSE /\ inflight' = [inflight EXCEPT !.todo = @ \ {h}]
            /\ seen' = IF Matches(hd, ev)
                       THEN [seen EXCEPT ![h] = Remember(@, FALSE)]
                       ELSE seen
            /\ UNCHANGED <<handlers, observer, staged, committed, commitLog, last, tally>>

\* The observer thread calls the next handler of the event in flight; a stop
\* requested meanwhile waits for the handlers of this event.
Deliver ==
    /\ pc \in {"watching", "stopping"} /\ observer = "running"
    /\ \E h \in inflight.todo : OnModified(h)
    /\ UNCHANGED <<inp, outp, argv, addons_path, rows, pc, i, acc, now, nevents, chosen, stats,
                   reported, ret>>

\* KeyboardInterrupt in the sleep loop: observer.stop().
Interrupt ==
    /\ pc = "watching"
    /\ pc' = "stopping"
    /\ UNCHANGED <<inp, outp, argv, addons_path, rows, i, acc, handlers, now, inflight, observer,
                   nevents, staged, committed, commitLog, last, chosen, stats, tally,
                   seen, reported, ret>>

RECURSIVE Totals(_)
\* nwarnings, nerrors, ncommits summed over event_handlers (lines 601-605).
Totals(hs) ==
    IF hs = <<>> THEN Zero
    ELSE Add(<<Head(hs).nwarnings, Head(hs).nerrors, Head(hs).ncommits>>, Totals(Tail(hs)))

\* The handlers' totals handed back to the caller.
WatchReturnTotals(a, hs) == Totals(hs)

\* nc = 0 after the totals are logged; nw and ne are update_view's own.
WatchReturn(a, hs) == <<a[1], a[2], 0>>

\* observer.join() returns; totals are logged; update_view returns (599-617).
Join ==
    /\ pc = "stopping"
    /\ inflight.todo = {} \/ observer = "dead"
    /\ observer' = "stopped"
    /\ reported' = Totals(handlers)
    /\ ret' = NoRows(WatchReturn(acc, handlers))
    /\ pc' = "returned"
    /\ UNCHANGED <<inp, outp, argv, addons_path, rows, i, acc, handlers, now, inflight, nevents,
                   staged, committed, commitLog, last, chosen, stats, tally, seen>>

\* ------------------------------------------------------------ __main__
\* elif ncommits > 0 (after `if nerrors`): conn.commit()
MainCommits(r) == r[2] = 0 /\ r[3] > 0

\* Lines 995-1017 after call_operation returned.
Main ==
    /\ pc = "returned"
    /\ IF MainCommits(ret)
       THEN /\ committed' = committed \o staged
            /\ staged' = <<>>
            /\ commitLog' = Append(commitLog, tally[2])
       ELSE UNCHANGED <<staged, committed, commitLog>>
    /\ pc' = "done"
    /\ UNCHANGED <<inp, outp, argv, addons_path, rows, i, acc, handlers, now, inflight, observer,
                   nevents, last, chosen, stats, tally, seen, reported, ret>>

\* except Exception as E: err("exception when running command ...")
MainExcept ==
    /\ pc = "raised"
    /\ pc' = "failed"
    /\ UNCHANGED <<inp, outp, argv, addons_path, rows, i, acc, handlers, now, inflight, observer,
                   nevents, staged, committed, commitLog, last, chosen, stats, tally,
                   seen, reported, ret>>

\* ------------------------------------------------------------ specifications
\* A one-shot run of set.view.arch.
Init == Begin(BatchArgs, Types, Dirs)

Next ==
    \/ Start
    \/ RowBatch
    \/ Return
    \/ Main
    \/ MainExcept

Spec == Init /\ [][Next]_vars

\* A run of set.view.arch with --watch.
InitWatch == Begin(WatchArgs, WatchTypes, WatchDirs)

NextWatch ==
    \/ Start
    \/ RowWatch
    \/ Return
    \/ StartObserver
    \/ Tick
    \/ Emit
    \/ Deliver
    \/ Interrupt
    \/ Join
    \/ Main
    \/ MainExcept

SpecWatch == InitWatch /\ [][NextWatch]_vars

\* No run in progress: the state of a specification that exercises one
\* function on its own.
Parked ==
    /\ argv = [watch |-> FALSE, id |-> "%", source_id |-> None, filename |-> NoFile,
               config |-> FALSE]
    /\ addons_path = <<>> /\ rows = <<>> /\ pc = "off" /\ i = 1 /\ acc = Zero
    /\ handlers = <<>> /\ now = 0 /\ inflight = Idle /\ observer = "idle"
    /\ nevents = 0 /\ staged = <<>> /\ committed = <<>> /\ commitLog = <<>>
    /\ last = NoCall /\ chosen = NoChoice /\ stats = NoStats /\ tally = Zero
    /\ seen = <<>> /\ reported = Zero /\ ret = Zero

main == <<argv, addons_path, rows, pc, i, acc, handlers, now, inflight, observer,
          nevents, staged, committed, commitLog, last, chosen, stats, tally, seen,
          reported, ret>>

\* One call of xml2arch, for every binding, file and answer of the environment.
\* A source id comes with a filename; an id without wildcard is the row's name.
Xml2ArchInputs ==
    {a \in [f : {"xml2arch"}, id : {"v1"} \cup Wildcards, name : {"v1", "v2"}, view_id : 1..2,
            type : Types, source_id : {None} \cup SourceIds,
            fn : {False, ArchFs[1], Normpath(CHOOSE x \in Filenames : TRUE)},
            env : Envs] :
        /\ a.id \notin Wildcards => a.name = a.id
        /\ a.source_id # None => a.fn \notin {False, ArchFs[1]}}

InitXml2Arch == Parked /\ inp \in Xml2ArchInputs /\ outp = <<>>

CallXml2Arch ==
    /\ inp.f = "xml2arch" /\ outp = <<>>
    /\ outp' = <<Xml2Arch(inp.id, inp.name, inp.view_id, inp.type, inp.source_id,
                          inp.fn, inp.env)>>
    /\ UNCHANGED <<inp, main>>

NextXml2Arch == CallXml2Arch

SpecXml2Arch == InitXml2Arch /\ [][NextXml2Arch]_vars

\* The serialisation block of xml2arch (lines 354-367) for every fragment.
InitSerialize == Parked /\ inp \in [f : {"serialize"}, children : Fragments] /\ outp = <<>>

\* Lines 356-366: new_arch with its declaration.
Build ==
    /\ inp.f = "serialize" /\ outp = <<>>
    /\ outp' = <<BuildArch(inp.children)>>
    /\ UNCHANGED <<inp, main>>

\* Line 367: the decoded, escaped string.
Encode ==
    /\ inp.f = "serialize" /\ Len(outp) = 1
    /\ outp' = Append(outp, Escape(outp[1]))
    /\ UNCHANGED <<inp, main>>

NextSerialize == Build \/ Encode

SpecSerialize == InitSerialize /\ [][NextSerialize]_vars

\* The escaping of line 367 and the literal of line 375, for every payload
\* over the quote characters, the backslash and an ordinary character.
PayloadChars == {DQ, SQ, "\\", "a"}

\* How the store reads the body of an E'...' literal: a backslash takes the
\* next character literally, an unescaped single quote ends the literal.
\*   ends = "closing" : the literal runs up to its own closing quote
\*   ends = "inside"  : a quote of the body ends it, the rest is read as SQL
\*   ends = "open"    : a final backslash escapes the closing quote
RECURSIVE ReadLiteral(_)
ReadLiteral(s) ==
    IF s = <<>> THEN [value |-> <<>>, ends |-> "closing"]
    ELSE IF Head(s) = "\\"
    THEN IF Len(s) = 1 THEN [value |-> <<SQ>>, ends |-> "open"]
         ELSE LET r == ReadLiteral(SubSeq(s, 3, Len(s)))
              IN [value |-> <<s[2]>> \o r.value, ends |-> r.ends]
    ELSE IF Head(s) = SQ THEN [value |-> <<>>, ends |-> "inside"]
    ELSE LET r == ReadLiteral(Tail(s))
         IN [value |-> <<Head(s)>> \o r.value, ends |-> r.ends]

InitEscape ==
    Parked /\ inp \in [f : {"escape"}, payload : SeqsUpTo(PayloadChars, MaxPayload)]
           /\ outp = <<>>

\* Line 367 on the decoded payload.
EscapePayload ==
    /\ inp.f = "escape" /\ outp = <<>>
    /\ outp' = <<Escape(inp.payload)>>
    /\ UNCHANGED <<inp, main>>

\* Lines 374-375: the escaped string is the body of E'%s'; the store reads it.
ExecuteLiteral ==
    /\ inp.f = "escape" /\ Len(outp) = 1
    /\ outp' = Append(outp, ReadLiteral(outp[1]))
    /\ UNCHANGED <<inp, main>>

NextEscape == EscapePayload \/ ExecuteLiteral

SpecEscape == InitEscape /\ [][NextEscape]_vars

\* ------------------------------------------------------------ list_model
\* argv without 'order-by'.
NoOrder == <<>>

\* The tokens list_model accepts; 'model' is the default ordering.
OrderByTokens == {"model", "module", "name"}

\* An --order-by clause as its comma-separated tokens: the accepted ones, the
\* column 'id', a token with a blank, the empty token.
OrderBys ==
    {NoOrder} \cup (SeqsUpTo(OrderByTokens \cup {"id", " name", ""}, MaxTokens) \ {<<>>})

\* (argv.get('order-by') or 'model').split(','): an absent or empty clause
\* is the default.
OrderByList(order_by) ==
    IF order_by = NoOrder \/ order_by = <<"">> THEN <<"model">> ELSE order_by

\* list(filter(lambda a: a in ['model', 'module', 'name'], _order_by_list))
OrderByFiltered(l) == SelectSeq(l, LAMBDA a : a \in OrderByTokens)

\* The validation looking at the first token only.
WrongOrderByFirst(l) == l[1] \notin OrderByTokens

\* len(_order_by_list) != len(_order_by_filtered)
WrongOrderBy(l) == Len(l) # Len(OrderByFiltered(l))

\* list_model: the triple returned (or the exception of cr.execute leaving
\* it) and the number of statements executed on the cursor.
ListModel(order_by, queryOk) ==
    IF WrongOrderBy(OrderByList(order_by))
    THEN [res |-> <<0, 1, 0>>, raised |-> FALSE, queries |-> 0]
    ELSE IF queryOk THEN [res |-> Zero, raised |-> FALSE, queries |-> 1]
    ELSE [res |-> Zero, raised |-> TRUE, queries |-> 1]

InitListModel ==
    Parked /\ inp \in [f : {"list_model"}, order_by : OrderBys, queryOk : BOOLEAN]
           /\ outp = <<>>

CallListModel ==
    /\ inp.f = "list_model" /\ outp = <<>>
    /\ outp' = <<ListModel(inp.order_by, inp.queryOk)>>
    /\ UNCHANGED <<inp, main>>

NextListModel == CallListModel

SpecListModel == InitListModel /\ [][NextListModel]_vars

\* ------------------------------------------------------------ claims
\* C1: a one-shot batch of N bindings of which exactly K end at fragment
\* location and the others are applied returns errors = K and applied = N - K,
\* every binding having been attempted.
C1_BatchTally ==
    (pc = "returned" /\ ~argv.watch /\ Len(rows) > 0 /\ stats.other = 0)
        => /\ stats.calls = Len(rows)
           /\ ret[2] = stats.nomatch
           /\ ret[3] = Len(rows) - stats.nomatch

\* C2: of two consecutive 'modified' events of a handler's file that come less
\* than the quiescence interval apart, exactly one is processed by xml2arch:
\* once one has been processed, the next is processed only if at least the
\* interval has elapsed since.
C2_Debounce ==
    [][\A h \in DOMAIN seen :
          (seen[h].processed /\ seen'[h].n = seen[h].n + 1 /\ seen'[h].processed)
          => seen'[h].t - seen[h].t >= Interval]_vars

\* C3: the session totals kept by the handlers are the component-wise sum of
\* the triples xml2arch returned for the accepted events.
C3_SessionTotal ==
    (argv.watch /\ inflight.todo = {}) => Totals(handlers) = tally

\* C4: a commit is issued only while no error has been returned by xml2arch
\* in the current operation or watch session.
C4_CommitOnlyClean ==
    \A k \in 1..Len(commitLog) : commitLog[k] = 0

\* C5 as stated: after the interruption update_view returns the session's
\* accumulated totals over all handlers.
C5_ReturnsTotals ==
    observer = "stopped" => ret = Totals(handlers)

\* C5, amended: after the interruption the accumulated totals over all
\* handlers are what update_view logs, and the triple it returns is (0, 0, 0).
C5_ReturnsZero ==
    observer = "stopped" => (reported = Totals(handlers) /\ ret = Zero)

\* A session that accepted events and tallied something was stopped.
C5_Witness ==
    observer = "stopped" /\ pc = "returned" /\ reported # Zero

\* C6: every call of xml2arch ends with a returned triple in which exactly one
\* of warnings, errors, applied is 1 and the others are 0.
C6_OneOutcome ==
    (inp.f = "xml2arch" /\ outp # <<>>)
        => /\ ~outp[1].raised
           /\ outp[1].res \in {<<1, 0, 0>>, <<0, 1, 0>>, <<0, 0, 1>>}

\* The binding's fragment is in the document: a node of the tag the view type
\* is looked up under, carrying the id the call looks for.
HasFragment(a) ==
    \E k \in 1..Len(a.env.doc) :
        /\ a.env.doc[k].id = Rid(a.id, a.name, a.source_id)
        /\ a.env.doc[k].tag = (IF a.type = "qweb" THEN "template" ELSE "record")

\* Every step before the UPDATE succeeds for the call a.
StepsOk(a) ==
    /\ a.fn # False /\ a.env.file = "ok"
    /\ a.type \in {"form", "tree", "qweb"}
    /\ HasFragment(a)
    /\ a.env.serOk

\* C7: xml2arch executes the UPDATE only when every earlier step succeeded,
\* never more than once, and an attempt in which every step and the UPDATE
\* succeed returns applied = 1 having written once, for the binding's view id.
C7_ShortCircuit ==
    (inp.f = "xml2arch" /\ outp # <<>>)
        => /\ outp[1].stmts # <<>> => StepsOk(inp)
           /\ Len(outp[1].stmts) <= 1
           /\ (StepsOk(inp) /\ inp.env.dbOk)
                 => /\ ~outp[1].raised
                    /\ outp[1].res = <<0, 0, 1>>
                    /\ Len(outp[1].stmts) = 1
                    /\ outp[1].stmts[1].id = inp.view_id

\* A fully successful call for view 2 has returned.
C7_Witness ==
    /\ inp.f = "xml2arch" /\ outp # <<>>
    /\ StepsOk(inp) /\ inp.env.dbOk /\ inp.view_id = 2
    /\ outp[1].res = <<0, 0, 1>>

\* C8: a binding whose file is found under none of the configured search
\* paths never aborts the batch or the watch session.
C8_NeverAborts ==
    (chosen.row # 0 /\ addons_path # <<>> /\ chosen.fn = False)
        => pc \notin {"raised", "failed"}

\* C9: the file chosen for a binding is, with a non-empty search-path list, the
\* stored path joined to the first search path under which it exists (no file
\* if there is none); otherwise the explicit filename if given; otherwise the
\* stored path.
C9_FileChoice ==
    chosen.row # 0 =>
        LET rel == rows[chosen.row].arch_fs
            a == addons_path
        IN IF a # <<>>
           THEN \/ \E k \in 1..Len(a) :
                      /\ a[k] \in chosen.ex
                      /\ \A j \in 1..(k - 1) : a[j] \notin chosen.ex
                      /\ chosen.fn = <<a[k]>> \o rel
                \/ /\ \A k \in 1..Len(a) : a[k] \notin chosen.ex
                   /\ chosen.fn = False
           ELSE IF argv.filename # NoFile THEN chosen.fn = argv.filename
           ELSE chosen.fn = rel

\* The stored path exists under the second search path only, and was chosen there.
C9_Witness ==
    /\ chosen.row # 0 /\ Len(addons_path) = 2
    /\ chosen.ex = {addons_path[2]}
    /\ chosen.fn = <<addons_path[2]>> \o rows[chosen.row].arch_fs

\* Number of tokens the children before the k-th take in the payload.
RECURSIVE MarkupBefore(_, _)
MarkupBefore(c, k) ==
    IF k <= 1 THEN 0 ELSE MarkupBefore(c, k - 1) + (IF c[k - 1].text = "" THEN 1 ELSE 3)

\* C10: the payload is the XML declaration line, then the markup of the
\* fragment's direct children in document order, inside one <data>...</data>
\* envelope if and only if the fragment has two or more children.
C10_Payload ==
    (inp.f = "serialize" /\ outp # <<>>) =>
        LET c == inp.children
            p == outp[1]
            n == Len(c)
            wrapped == n >= 2
            off == 6 + (IF wrapped THEN 1 ELSE 0)
        IN /\ SubSeq(p, 1, 6) = <<"<?xml version=", "\"", "1.0", "\"", "?>", "\n">>
           /\ Len(p) = off + MarkupBefore(c, n + 1) + (IF wrapped THEN 1 ELSE 0)
           /\ wrapped => (p[7] = "<data>" /\ p[Len(p)] = "</data>")
           /\ \A k \in 7..Len(p) : p[k] \in {"<data>", "</data>"} => wrapped
           /\ \A k \in 1..n :
                 LET at == off + MarkupBefore(c, k)
                 IN IF c[k].text = ""
                    THEN p[at + 1] = "<" \o c[k].tag \o " />"
                    ELSE /\ p[at + 1] = "<" \o c[k].tag \o ">"
                         /\ p[at + 2] = c[k].text
                         /\ p[at + 3] = "</" \o c[k].tag \o ">"

\* A fragment of exactly one child has been serialised.
C10_Witness ==
    inp.f = "serialize" /\ outp # <<>> /\ Len(inp.children) = 1

\* C11: for every payload over single quote, double quote, backslash and an
\* ordinary character, the escaped payload embedded in E'...' is ended only by
\* the literal's own closing quote and the store reads back the payload.
C11_EscapeSafe ==
    (inp.f = "escape" /\ Len(outp) = 2)
        => /\ outp[2].ends = "closing"
           /\ outp[2].value = inp.payload

\* C12: for a binding whose kind is not form, tree or qweb and whose file
\* exists and parses, xml2arch returns one warning, no error, nothing applied,
\* and executes no statement on the cursor.
C12_UnsupportedKind ==
    (/\ inp.f = "xml2arch" /\ outp # <<>>
     /\ inp.type \notin {"form", "tree", "qweb"}
     /\ inp.fn # False /\ inp.env.file = "ok")
        => /\ ~outp[1].raised
           /\ outp[1].res = <<1, 0, 0>>
           /\ outp[1].stmts = <<>>

\* A kanban binding whose document holds a template under the id looked up
\* was rejected at the kind dispatch.
C12_Witness ==
    /\ inp.f = "xml2arch" /\ outp # <<>>
    /\ inp.type = "kanban" /\ inp.fn # False /\ inp.env.file = "ok"
    /\ \E k \in 1..Len(inp.env.doc) :
          /\ inp.env.doc[k].tag = "template"
          /\ inp.env.doc[k].id = Rid(inp.id, inp.name, inp.source_id)
    /\ outp[1].step = "kind"

\* The call reached the lookup in the document.
Looked(a) == a.fn # False /\ a.env.file = "ok" /\ a.type \in {"form", "tree", "qweb"}

\* The document holds a node of the tag the view type is looked up under
\* carrying the id rid.
HoldsId(a, rid) ==
    \E k \in 1..Len(a.env.doc) :
        /\ a.env.doc[k].id = rid
        /\ a.env.doc[k].tag = (IF a.type = "qweb" THEN "template" ELSE "record")

\* C13: the id looked up in the source document is the source id if one is
\* given, else the requested id if it has no wildcard, else the record's own
\* stored name: the lookup finds a fragment exactly when the document holds
\* one under that id.  A wildcard request without source id is looked up under
\* the stored name.
C13_RidPrecedence ==
    (inp.f = "xml2arch" /\ outp # <<>> /\ Looked(inp))
        => /\ inp.source_id # None
                 => (outp[1].step # "nomatch" <=> HoldsId(inp, inp.source_id))
           /\ (inp.source_id = None /\ inp.id \notin {"%", "v%"})
                 => (outp[1].step # "nomatch" <=> HoldsId(inp, inp.id))
           /\ (inp.source_id = None /\ inp.id \in {"%", "v%"})
                 => (outp[1].step # "nomatch" <=> HoldsId(inp, inp.name))

\* A wildcard request without source id found the fragment kept under the
\* stored name v2 and applied it.
C13_Witness ==
    /\ inp.f = "xml2arch" /\ outp # <<>> /\ Looked(inp)
    /\ inp.source_id = None /\ inp.id = "%" /\ inp.name = "v2"
    /\ HoldsId(inp, "v2")
    /\ outp[1].step = "applied"

\* C14: a call of list_model whose ordering clause holds a token outside the
\* three accepted ones (model, the identifier ordering and default; module;
\* name) fails validation: it returns one error, nothing applied, and no
\* statement has been executed on the cursor.
C14_OrderByRejected ==
    (/\ inp.f = "list_model" /\ outp # <<>>
     /\ inp.order_by # <<"">>
     /\ \E k \in 1..Len(inp.order_by) : inp.order_by[k] \notin {"model", "module", "name"})
        => /\ ~outp[1].raised
           /\ outp[1].res = <<0, 1, 0>>
           /\ outp[1].queries = 0

\* A clause whose first token is accepted and whose second is not was rejected.
C14_Witness ==
    /\ inp.f = "list_model" /\ outp # <<>>
    /\ inp.order_by = <<"name", "id">>
    /\ outp[1].res = <<0, 1, 0>>

\* The event in flight is a 'modified' event of the file of handler h.
Hits(h) == inflight.ev.cls = "FileModified" /\ handlers[h].filename = inflight.ev.path

\* This step ran xml2arch for handler h.
Ran(h) == seen'[h].n = seen[h].n + 1 /\ seen'[h].processed

\* C15: in a running watch session an event makes xml2arch run for a binding
\* only if it is a 'modified' event whose path equals the binding's file; a
\* handler called with any other event leaves the store, the debounce state
\* and the totals unchanged; and when the dispatch of an event ends, every
\* binding of a shared file has been called with the same 'modified' events.
C15_EventDispatch ==
    [][(pc \in {"watching", "stopping"} /\ inflight.todo # {})
          => /\ \A h \in DOMAIN handlers : Ran(h) => Hits(h)
             /\ \A h \in inflight.todo :
                   (h \notin inflight'.todo /\ ~Hits(h))
                      => UNCHANGED <<handlers, staged, committed, tally>>
             /\ inflight'.todo = {}
                   => \A h1, h2 \in DOMAIN handlers :
                         handlers[h1].filename = handlers[h2].filename
                            => seen'[h1].n = seen'[h2].n]_vars

\* The outcomes a handler has counted so far.
Counted(hd) == hd.nwarnings + hd.nerrors + hd.ncommits

\* C16: in watch mode xml2arch runs for one binding at a time; a run that has
\* begun ends counted (one more warning, error or apply in its handler's
\* totals) before the interruption takes effect; and the totals read after the
\* stop are read when no handler of the event in flight is left to call, so
\* they include every run that began.
C16_RunsToCompletion ==
    [][/\ \A h \in DOMAIN handlers :
             Ran(h) => /\ Counted(handlers'[h]) = Counted(handlers[h]) + 1
                       /\ \A g \in DOMAIN handlers \ {h} : ~Ran(g)
       /\ (pc = "stopping" /\ pc' = "returned")
             => /\ inflight.todo = {}
                /\ reported' = Totals(handlers)]_vars

\* C17: when the record query matches no row, update_view returns errors = 1
\* and applied = 0; no file is chosen or read, no write is staged or committed,
\* no handler is created and no watch session is started.
C17_ZeroRows ==
    (Len(rows) = 0 /\ pc \notin {"off", "exit"})
        => /\ pc \in {"returned", "done"} => (ret[2] = 1 /\ ret[3] = 0)
           /\ chosen = NoChoice /\ last = NoCall
           /\ staged = <<>> /\ committed = <<>>
           /\ handlers = <<>> /\ observer = "idle" /\ nevents = 0

\* A --watch run whose query matched nothing has returned to __main__.
C17_Witness ==
    Len(rows) = 0 /\ argv.watch /\ pc = "done" /\ ret = <<0, 1, 0>>

\* C18: every write staged by a successful apply in a watch session has been
\* committed by the time the session's result is returned to the caller,
\* whether or not a further event came for the same binding.
C18_AppliedCommitted ==
    (argv.watch /\ pc \in {"returned", "done"}) => staged = <<>>

====
